---- MODULE Spec2Model ----
(***************************************************************************)
(* Model of piston/authentication.py: the HTTP Basic handler, the three    *)
(* OAuth 1.0a protocol endpoints and the OAuth authentication handler.     *)
(*                                                                         *)
(* Strings are sequences of one-character strings, so that split, strip,   *)
(* lower and the base64 codec are computed the way the code computes them. *)
(***************************************************************************)
EXTENDS Integers, Sequences, FiniteSets, TLC

\* ------------------------------------------------------------------ bounds
MaxPayload == 4        \* longest payload after the scheme of a Basic header
MaxTokens == 3         \* tokens the store can hold

\* ------------------------------------------------------- HTTP Basic state
\* auth_string: the request's Authorization header
\* basic_ret: what is_authenticated returned or raised ("pending" before the call)
\* basic_user: request.user
\* basic_realm: the realm the handler was constructed with
\* basic_challenge: the response of challenge(), once the framework asked for it
VARIABLES auth_string, basic_ret, basic_user, basic_realm, basic_challenge

basicVars == <<auth_string, basic_ret, basic_user, basic_realm, basic_challenge>>

\* ------------------------------------------------ OAuth store and session
\* tokens: the store's Token table, a token's key being its index
\* nonces: the store's Nonce table
\* session: request.session['oauth'] (-1: no entry, 0: '', k: the key of token k)
\* last: the endpoint that handled the latest request, its response's status
\*       and kind of body, and what the handler did on the way
VARIABLES tokens, nonces, session, last

protoVars == <<tokens, nonces, session, last>>

\* ------------------------------------------- concurrent access-token requests
\* pc: where each request handler stands (idle, or validated: its request passed
\*     the server's checks and the store's consume-and-issue is still to come)
\* creq: the request token each validated handler is about to exchange
\* cpost: the decision and callback of the POST each handler of the
\*        authorization endpoint is carrying out
VARIABLES pc, creq, cpost

concVars == <<pc, creq, cpost>>

\* --------------------------------------------------- OAuth authentication
\* api: the API request handed to OAuthAuthentication.is_authenticated
\* auth_ret: what is_authenticated returned or raised ("pending" before the call)
\* auth_user, auth_throttle: request.user and request.throttle_extra
\* oauth_realm: the realm the handler was constructed with
\* oauth_challenge: the response of challenge(), once the framework asked for it
VARIABLES api, auth_ret, auth_user, auth_throttle, oauth_realm, oauth_challenge

authVars == <<api, auth_ret, auth_user, auth_throttle, oauth_realm, oauth_challenge>>

vars == <<auth_string, basic_ret, basic_user, basic_realm, basic_challenge,
          tokens, nonces, session, last, pc, creq, cpost,
          api, auth_ret, auth_user, auth_throttle, oauth_realm, oauth_challenge>>

\* ---------------------------------------------------------- string helpers
RECURSIVE SeqsUpTo(_, _)
SeqsUpTo(S, n) ==
    IF n = 0 THEN {<<>>}
    ELSE LET shorter == SeqsUpTo(S, n - 1)
         IN  shorter \cup {Append(s, c) : s \in {t \in shorter : Len(t) = n - 1}, c \in S}

UpperLetters == <<"A","B","C","D","E","F","G","H","I","J","K","L","M",
                  "N","O","P","Q","R","S","T","U","V","W","X","Y","Z">>
LowerLetters == <<"a","b","c","d","e","f","g","h","i","j","k","l","m",
                  "n","o","p","q","r","s","t","u","v","w","x","y","z">>

\* str.lower() of one character
LowerChar(c) ==
    IF \E i \in 1..26 : UpperLetters[i] = c
    THEN LowerLetters[CHOOSE i \in 1..26 : UpperLetters[i] = c]
    ELSE c

\* authmeth.lower()
Lower(s) == [i \in 1..Len(s) |-> LowerChar(s[i])]

\* index of the first occurrence of character c in s, 0 when there is none
FirstIndex(s, c) ==
    IF \E i \in 1..Len(s) : s[i] = c
    THEN CHOOSE i \in 1..Len(s) : s[i] = c /\ \A j \in 1..(i - 1) : s[j] # c
    ELSE 0

\* s.split(c, 1): a list of one element when c does not occur, else of two
Split1(s, c) ==
    LET i == FirstIndex(s, c)
    IN  IF i = 0 THEN <<s>>
        ELSE <<SubSeq(s, 1, i - 1), SubSeq(s, i + 1, Len(s))>>

\* s.strip(): drop leading and trailing whitespace
RECURSIVE Strip(_)
Strip(s) ==
    IF s = <<>> THEN s
    ELSE IF Head(s) = " " THEN Strip(Tail(s))
    ELSE IF s[Len(s)] = " " THEN Strip(SubSeq(s, 1, Len(s) - 1))
    ELSE s

\* --------------------------------------------------------- base64 codec
\* the base64 alphabet, value = index - 1
B64Chars == <<"A","B","C","D","E","F","G","H","I","J","K","L","M",
              "N","O","P","Q","R","S","T","U","V","W","X","Y","Z",
              "a","b","c","d","e","f","g","h","i","j","k","l","m",
              "n","o","p","q","r","s","t","u","v","w","x","y","z",
              "0","1","2","3","4","5","6","7","8","9","+","/">>

IsB64(c) == \E i \in 1..64 : B64Chars[i] = c

B64Value(c) == (CHOOSE i \in 1..64 : B64Chars[i] = c) - 1

Pow2(n) == IF n = 0 THEN 1 ELSE IF n = 2 THEN 4 ELSE IF n = 4 THEN 16 ELSE 64

\* the (num+1)-th character from position i on that the decoding table knows
\* (the pad character is in the table), "" when there is none
RECURSIVE FindValid(_, _, _)
FindValid(s, i, num) ==
    IF i > Len(s) THEN ""
    ELSE IF IsB64(s[i]) \/ s[i] = "="
         THEN IF num = 0 THEN s[i] ELSE FindValid(s, i + 1, num - 1)
         ELSE FindValid(s, i + 1, num)

\* the decoding loop of str.decode('base64'): whitespace and characters outside
\* the alphabet are skipped, a pad sequence ends the input, six bits are
\* shifted in per character and a byte is emitted whenever eight are ready
RECURSIVE A2BLoop(_, _, _, _, _, _)
A2BLoop(s, i, quad_pos, leftchar, leftbits, out) ==
    IF i > Len(s) THEN [leftbits |-> leftbits, out |-> out]
    ELSE IF s[i] = " " THEN A2BLoop(s, i + 1, quad_pos, leftchar, leftbits, out)
    ELSE IF s[i] = "="
         THEN IF quad_pos < 2 \/ (quad_pos = 2 /\ FindValid(s, i, 1) # "=")
              THEN A2BLoop(s, i + 1, quad_pos, leftchar, leftbits, out)
              ELSE [leftbits |-> 0, out |-> out]
    ELSE IF ~IsB64(s[i]) THEN A2BLoop(s, i + 1, quad_pos, leftchar, leftbits, out)
    ELSE LET lc == leftchar * 64 + B64Value(s[i])
             lb == leftbits + 6
         IN  IF lb >= 8
             THEN A2BLoop(s, i + 1, (quad_pos + 1) % 4, lc % Pow2(lb - 8), lb - 8,
                          Append(out, (lc \div Pow2(lb - 8)) % 256))
             ELSE A2BLoop(s, i + 1, (quad_pos + 1) % 4, lc, lb, out)

\* s.decode('base64'): the decoded bytes, or binascii.Error (Incorrect padding)
\* when bits are left over
DecodeBase64(s) ==
    LET r == A2BLoop(s, 1, 0, 0, 0, <<>>)
    IN  IF r.leftbits # 0 THEN [ok |-> FALSE, bytes |-> <<>>]
        ELSE [ok |-> TRUE, bytes |-> r.out]

\* ------------------------------------------------------------- HTTP Basic
Colon == 58     \* ord(':')

\* django.contrib.auth users: username and password as byte strings
\* (alice logs in as "a" with the password ":")
UserTable == { [username |-> <<97>>, password |-> <<58>>, name |-> "alice"] }

\* django_auth(username, password): the User, or False
django_auth(username, password) ==
    IF \E u \in UserTable : u.username = username
    THEN LET user == CHOOSE u \in UserTable : u.username = username
         IN  IF user.password = password THEN user.name ELSE "False"
    ELSE "False"

\* is_authenticated splitting the credentials on every colon: a password with
\* a colon in it gives more than two parts
BasicIsAuthenticated_split_all(header, user) ==
    IF header = <<>> THEN [ret |-> "False", user |-> user]
    ELSE LET parts == Split1(header, " ")
         IN  IF Len(parts) # 2 THEN [ret |-> "ValueError", user |-> user]
             ELSE IF Lower(parts[1]) # <<"b","a","s","i","c">>
                  THEN [ret |-> "False", user |-> user]
             ELSE LET auth == DecodeBase64(Strip(parts[2]))
                  IN  IF ~auth.ok THEN [ret |-> "binascii.Error", user |-> user]
                      ELSE LET cred == Split1(auth.bytes, Colon)
                           IN  IF Len(cred) # 2 \/ FirstIndex(cred[2], Colon) # 0
                               THEN [ret |-> "ValueError", user |-> user]
                               ELSE LET found == django_auth(cred[1], cred[2])
                                        bound == IF found = "False" THEN "AnonymousUser"
                                                 ELSE found
                                    IN  [ret  |-> IF bound \in {"False", "AnonymousUser"}
                                                  THEN "False" ELSE "True",
                                         user |-> bound]

\* HttpBasicAuthentication.is_authenticated(request), request.user being
\* `user` on entry: the value returned or the exception raised, and request.user
BasicIsAuthenticated(header, user) ==
    IF header = <<>> THEN [ret |-> "False", user |-> user]
    ELSE LET parts == Split1(header, " ")
         IN  IF Len(parts) # 2 THEN [ret |-> "ValueError", user |-> user]
             ELSE IF Lower(parts[1]) # <<"b","a","s","i","c">>
                  THEN [ret |-> "False", user |-> user]
             ELSE LET auth == DecodeBase64(Strip(parts[2]))
                  IN  IF ~auth.ok THEN [ret |-> "binascii.Error", user |-> user]
                      ELSE LET cred == Split1(auth.bytes, Colon)
                           IN  IF Len(cred) # 2 THEN [ret |-> "ValueError", user |-> user]
                               ELSE LET found == django_auth(cred[1], cred[2])
                                        bound == IF found = "False" THEN "AnonymousUser"
                                                 ELSE found
                                    IN  [ret  |-> IF bound \in {"False", "AnonymousUser"}
                                                  THEN "False" ELSE "True",
                                         user |-> bound]

\* -------------------------------------------------- OAuth data and requests
Now == 1               \* the server's clock when the requests are checked
Skew == 0              \* the configured timestamp window

ConsumerTable == { [key |-> "ck1", secret |-> "cs1", id |-> 1] }
Users == {"u1", "u2"}

\* the Token rows of the given kind
TokenKeys(tt, kind) == { k \in 1..Len(tt) : tt[k].kind = kind }

\* the secret issued with token k; the empty secret is 0
TokenSecret(k) == k

\* a signature method applied to the two secrets (PLAINTEXT: their
\* concatenation; HMAC-SHA1: the digest keyed by it)
Sign(method, consumer_secret, token_secret) == <<method, consumer_secret, token_secret>>

\* the view of a request oauth.OAuthRequest.from_request builds; parsed is
\* FALSE when the request carries no OAuth parameters and from_request gives None
OAuthRequest(ck, t, ts, n, m, sig, cb) ==
    [parsed |-> TRUE, consumer_key |-> ck, token |-> t, timestamp |-> ts, nonce |-> n,
     signature_method |-> m, signature |-> sig, callback |-> cb]

NoOAuthRequest ==
    [parsed |-> FALSE, consumer_key |-> "", token |-> 0, timestamp |-> 0, nonce |-> "",
     signature_method |-> "", signature |-> <<>>, callback |-> ""]

\* ----------------------------------------------------------- OAuthServer
\* the signature methods initialize_server_request adds to the server
SignatureMethods == {"PLAINTEXT", "HMAC-SHA1"}

Fresh(timestamp) == timestamp >= Now - Skew /\ timestamp <= Now + Skew

NonceTuple(req, tk) == <<req.consumer_key, tk, req.timestamp, req.nonce>>

\* the checks every signed operation makes, cheapest first: consumer,
\* timestamp window, nonce (recorded if new), signature method, signature
CheckRequest(req, tk, token_secret, nn) ==
    IF ~\E c \in ConsumerTable : c.key = req.consumer_key
    THEN [err |-> "InvalidConsumerError", nonces |-> nn]
    ELSE IF ~Fresh(req.timestamp)
    THEN [err |-> "StaleTimestampError", nonces |-> nn]
    ELSE IF NonceTuple(req, tk) \in nn
    THEN [err |-> "NonceReplayError", nonces |-> nn]
    ELSE LET consumer == CHOOSE c \in ConsumerTable : c.key = req.consumer_key
             recorded == nn \cup {NonceTuple(req, tk)}
         IN  IF req.signature_method \notin SignatureMethods
             THEN [err |-> "UnsupportedSignatureMethodError", nonces |-> recorded]
             ELSE IF req.signature # Sign(req.signature_method, consumer.secret, token_secret)
             THEN [err |-> "InvalidSignatureError", nonces |-> recorded]
             ELSE [err |-> "", nonces |-> recorded]

\* OAuthServer.fetch_request_token: the request token the request names, or,
\* for a request naming none, a new token in state UNAUTHORIZED
fetch_request_token(req, tt, nn) ==
    IF req.token \in TokenKeys(tt, "request")
    THEN [err |-> "", tokens |-> tt, nonces |-> nn, token |-> req.token]
    ELSE LET chk == CheckRequest(req, 0, 0, nn)
         IN  IF chk.err # ""
             THEN [err |-> chk.err, tokens |-> tt, nonces |-> chk.nonces, token |-> 0]
             ELSE [err |-> "",
                   tokens |-> Append(tt, [kind |-> "request", state |-> "UNAUTHORIZED",
                                           user |-> "none", consumer |-> req.consumer_key,
                                           source |-> 0]),
                   nonces |-> chk.nonces, token |-> Len(tt) + 1]

\* authorize_token without its precondition: any token is (re)authorized
authorize_token_any_state(k, user, tt) ==
    [err |-> "", tokens |-> [tt EXCEPT ![k].state = "AUTHORIZED", ![k].user = user]]

\* OAuthServer.authorize_token: UNAUTHORIZED -> AUTHORIZED, binding the user;
\* a precondition failure that changes nothing in any other state
authorize_token(k, user, tt) ==
    IF tt[k].state = "UNAUTHORIZED"
    THEN [err |-> "", tokens |-> [tt EXCEPT ![k].state = "AUTHORIZED", ![k].user = user]]
    ELSE [err |-> "PreconditionFailedError", tokens |-> tt]

\* create_access_token without the check on the request token's state
create_access_token_unchecked(k, tt) ==
    [err |-> "",
     tokens |-> Append([tt EXCEPT ![k].state = "CONSUMED"],
                       [kind |-> "access", state |-> "ACCESS", user |-> tt[k].user,
                        consumer |-> tt[k].consumer, source |-> k]),
     token |-> Len(tt) + 1]

\* the store's create_access_token: check-and-set on the request token's
\* state, consuming it and creating the one access token derived from it
create_access_token(k, tt) ==
    IF tt[k].state = "AUTHORIZED"
    THEN [err |-> "",
          tokens |-> Append([tt EXCEPT ![k].state = "CONSUMED"],
                            [kind |-> "access", state |-> "ACCESS", user |-> tt[k].user,
                             consumer |-> tt[k].consumer, source |-> k]),
          token |-> Len(tt) + 1]
    ELSE [err |-> "TokenAlreadyConsumedError", tokens |-> tt, token |-> 0]

\* the part of OAuthServer.fetch_access_token before the store's
\* consume-and-issue: the named request token's existence and state, then the
\* request's checks with that token's secret
validate_access_request(req, tt, nn) ==
    IF req.token \notin TokenKeys(tt, "request")
    THEN [err |-> "TokenNotFoundError", nonces |-> nn]
    ELSE IF tt[req.token].state = "UNAUTHORIZED"
    THEN [err |-> "TokenNotAuthorizedError", nonces |-> nn]
    ELSE IF tt[req.token].state = "CONSUMED"
    THEN [err |-> "TokenAlreadyConsumedError", nonces |-> nn]
    ELSE CheckRequest(req, req.token, TokenSecret(req.token), nn)

\* OAuthServer.fetch_access_token
fetch_access_token(req, tt, nn) ==
    LET chk == validate_access_request(req, tt, nn)
    IN  IF chk.err # ""
        THEN [err |-> chk.err, tokens |-> tt, nonces |-> chk.nonces, token |-> 0]
        ELSE LET made == create_access_token(req.token, tt)
             IN  [err |-> made.err, tokens |-> made.tokens, nonces |-> chk.nonces,
                  token |-> made.token]

\* OAuthServer.get_callback: the request's oauth_callback, an OAuthError when
\* the request has none
get_callback(req) ==
    IF req.callback = "" THEN [err |-> "ParameterNotFoundError", callback |-> ""]
    ELSE [err |-> "", callback |-> req.callback]

\* ------------------------------------------------------------- responses
\* an HttpResponse: status, body (its kind, its text, the token it shows) and
\* the WWW-Authenticate header, <<scheme, realm>> or <<>> when there is none
Response(status, kind, text, token, www) ==
    [status |-> status, kind |-> kind, text |-> text, token |-> token, www |-> www]

\* HttpResponse(token.to_string()): the urlencoded token
TokenResponse(k) == Response(200, "token", "", k, <<>>)

\* send_oauth_error(err)
send_oauth_error(message) == Response(401, "error", message, 0, <<"OAuth", "OAuth">>)

INVALID_PARAMS_RESPONSE == send_oauth_error("Invalid request parameters.")

\* oauth_auth_view(request, token, callback, params)
oauth_auth_view(k) == Response(200, "view", "Just a fake view for auth.", k, <<>>)

\* the view settings.OAUTH_CALLBACK_VIEW names, called with the token
callback_view(k) == Response(200, "callback_view", "", k, <<>>)

\* HttpResponseRedirect(callback + args)
Redirect(callback, args, k) == Response(302, "redirect", args, k, <<>>)

\* login_required's answer to a user who is not logged in
LoginRedirect == Response(302, "login", "", 0, <<>>)

\* a handler that returns without a response
NoResponse == Response(0, "None", "", 0, <<>>)

\* -------------------------------------------------------------- endpoints
\* each endpoint gives the response and the store and session it leaves;
\* raised names the OAuthServer operations that raised an OAuthError on the
\* way, authorized tells whether authorize_token was called
Outcome(resp, tt, nn, sess, raised, authorized) ==
    [resp |-> resp, tokens |-> tt, nonces |-> nn, session |-> sess,
     raised |-> raised, authorized |-> authorized]

\* oauth_request_token answering an OAuthError with the message alone, the
\* status left at 200 and no WWW-Authenticate header
oauth_request_token_status200(req, tt, nn, sess) ==
    IF ~req.parsed THEN Outcome(INVALID_PARAMS_RESPONSE, tt, nn, sess, {}, FALSE)
    ELSE LET f == fetch_request_token(req, tt, nn)
         IN  IF f.err # ""
             THEN Outcome(Response(200, "error", f.err, 0, <<>>), f.tokens, f.nonces, sess,
                          {"fetch_request_token"}, FALSE)
             ELSE Outcome(TokenResponse(f.token), f.tokens, f.nonces, sess, {}, FALSE)

\* oauth_request_token(request)
oauth_request_token(req, tt, nn, sess) ==
    IF ~req.parsed THEN Outcome(INVALID_PARAMS_RESPONSE, tt, nn, sess, {}, FALSE)
    ELSE LET f == fetch_request_token(req, tt, nn)
         IN  IF f.err # ""
             THEN Outcome(send_oauth_error(f.err), f.tokens, f.nonces, sess,
                          {"fetch_request_token"}, FALSE)
             ELSE Outcome(TokenResponse(f.token), f.tokens, f.nonces, sess, {}, FALSE)

\* int(request.POST.get('authorize_access', '0')) for the values browsers send
authorize_access_int(http) ==
    LET value == IF http.authorize_access = "absent" THEN "0" ELSE http.authorize_access
    IN  IF value = "1" THEN 1 ELSE 0

\* the POST branch without the except clause: authorize_token's OAuthError
\* leaves the handler
user_auth_decision_uncaught(k, callback, http, tt, nn, raised) ==
    IF authorize_access_int(http) # 0
    THEN LET a == authorize_token(k, http.user, tt)
         IN  IF a.err # ""
             THEN Outcome(Response(500, "OAuthError", a.err, 0, <<>>), a.tokens, nn, 0,
                          raised \cup {"authorize_token"}, TRUE)
             ELSE IF callback = ""
             THEN Outcome(callback_view(k), a.tokens, nn, 0, raised, TRUE)
             ELSE Outcome(Redirect(callback, "?oauth_token", k), a.tokens, nn, 0, raised, TRUE)
    ELSE IF callback = ""
    THEN Outcome(callback_view(k), tt, nn, 0, raised, FALSE)
    ELSE Outcome(Redirect(callback, "?error=Access not granted by user.", k), tt, nn, 0,
                 raised, FALSE)

\* the POST branch leaving the session's marker as it found it
user_auth_decision_marker_kept(k, callback, http, tt, nn, raised) ==
    IF authorize_access_int(http) # 0
    THEN LET a == authorize_token(k, http.user, tt)
         IN  IF a.err # ""
             THEN Outcome(send_oauth_error(a.err), a.tokens, nn, k,
                          raised \cup {"authorize_token"}, TRUE)
             ELSE IF callback = ""
             THEN Outcome(callback_view(k), a.tokens, nn, k, raised, TRUE)
             ELSE Outcome(Redirect(callback, "?oauth_token", k), a.tokens, nn, k, raised, TRUE)
    ELSE IF callback = ""
    THEN Outcome(callback_view(k), tt, nn, k, raised, FALSE)
    ELSE Outcome(Redirect(callback, "?error=Access not granted by user.", k), tt, nn, k,
                 raised, FALSE)

\* the POST branch calling authorize_token whatever the user decided
user_auth_decision_always_authorizes(k, callback, http, tt, nn, raised) ==
    LET a == authorize_token(k, http.user, tt)
    IN  IF a.err # ""
        THEN Outcome(send_oauth_error(a.err), a.tokens, nn, 0,
                     raised \cup {"authorize_token"}, TRUE)
        ELSE IF callback = ""
        THEN Outcome(callback_view(k), a.tokens, nn, 0, raised, TRUE)
        ELSE Outcome(Redirect(callback, "?oauth_token", k), a.tokens, nn, 0, raised, TRUE)

\* the POST branch of oauth_user_auth once the session holds the token's key:
\* the marker is cleared, then the decision is carried out
user_auth_decision(k, callback, http, tt, nn, raised) ==
    IF authorize_access_int(http) # 0
    THEN LET a == authorize_token(k, http.user, tt)
         IN  IF a.err # ""
             THEN Outcome(send_oauth_error(a.err), a.tokens, nn, 0,
                          raised \cup {"authorize_token"}, TRUE)
             ELSE IF callback = ""
             THEN Outcome(callback_view(k), a.tokens, nn, 0, raised, TRUE)
             ELSE Outcome(Redirect(callback, "?oauth_token", k), a.tokens, nn, 0, raised, TRUE)
    ELSE IF callback = ""
    THEN Outcome(callback_view(k), tt, nn, 0, raised, FALSE)
    ELSE Outcome(Redirect(callback, "?error=Access not granted by user.", k), tt, nn, 0,
                 raised, FALSE)

\* oauth_user_auth(request), behind login_required
oauth_user_auth(req, http, tt, nn, sess) ==
    IF http.user = "anonymous" THEN Outcome(LoginRedirect, tt, nn, sess, {}, FALSE)
    ELSE IF ~req.parsed THEN Outcome(INVALID_PARAMS_RESPONSE, tt, nn, sess, {}, FALSE)
    ELSE LET f == fetch_request_token(req, tt, nn)
             cb == get_callback(req)
             callback == IF cb.err # "" THEN "" ELSE cb.callback
             raised == IF cb.err # "" THEN {"get_callback"} ELSE {}
         IN  IF f.err # ""
             THEN Outcome(send_oauth_error(f.err), f.tokens, f.nonces, sess,
                          {"fetch_request_token"}, FALSE)
             ELSE IF http.method = "GET"
             THEN Outcome(oauth_auth_view(f.token), f.tokens, f.nonces, f.token, raised, FALSE)
             ELSE IF http.method = "POST"
             THEN IF sess = f.token
                  THEN user_auth_decision(f.token, callback, http, f.tokens, f.nonces, raised)
                  ELSE Outcome(Response(200, "text", "Action not allowed.", 0, <<>>),
                               f.tokens, f.nonces, sess, raised, FALSE)
             ELSE Outcome(NoResponse, f.tokens, f.nonces, sess, raised, FALSE)

\* oauth_access_token answering an OAuthError with the message alone, the
\* status left at 200 and no WWW-Authenticate header
oauth_access_token_status200(req, tt, nn, sess) ==
    IF ~req.parsed THEN Outcome(INVALID_PARAMS_RESPONSE, tt, nn, sess, {}, FALSE)
    ELSE LET f == fetch_access_token(req, tt, nn)
         IN  IF f.err # ""
             THEN Outcome(Response(200, "error", f.err, 0, <<>>), f.tokens, f.nonces, sess,
                          {"fetch_access_token"}, FALSE)
             ELSE Outcome(TokenResponse(f.token), f.tokens, f.nonces, sess, {}, FALSE)

\* oauth_access_token answering every OAuthError with INVALID_PARAMS_RESPONSE
oauth_access_token_generic(req, tt, nn, sess) ==
    IF ~req.parsed THEN Outcome(INVALID_PARAMS_RESPONSE, tt, nn, sess, {}, FALSE)
    ELSE LET f == fetch_access_token(req, tt, nn)
         IN  IF f.err # ""
             THEN Outcome(INVALID_PARAMS_RESPONSE, f.tokens, f.nonces, sess,
                          {"fetch_access_token"}, FALSE)
             ELSE Outcome(TokenResponse(f.token), f.tokens, f.nonces, sess, {}, FALSE)

\* oauth_access_token(request)
oauth_access_token(req, tt, nn, sess) ==
    IF ~req.parsed THEN Outcome(INVALID_PARAMS_RESPONSE, tt, nn, sess, {}, FALSE)
    ELSE LET f == fetch_access_token(req, tt, nn)
         IN  IF f.err # ""
             THEN Outcome(send_oauth_error(f.err), f.tokens, f.nonces, sess,
                          {"fetch_access_token"}, FALSE)
             ELSE Outcome(TokenResponse(f.token), f.tokens, f.nonces, sess, {}, FALSE)

\* ---------------------------------------------------------------- inputs
Callbacks == {"", "cb"}
Procs == {"p1", "p2"}
Nonces == {"n1", "n2"}

\* the signed requests clients send for token t (0: none) with nonce n: right
\* under PLAINTEXT for a request without token or for the token named, right
\* under HMAC-SHA1, or wrong in one respect (unknown consumer, timestamp
\* outside the window, signature method the server lacks, wrong consumer secret)
RequestsFor(t, n, cb) ==
    { OAuthRequest("ck1", t, Now, n, "PLAINTEXT", Sign("PLAINTEXT", "cs1", 0), cb),
      OAuthRequest("ck1", t, Now, n, "PLAINTEXT", Sign("PLAINTEXT", "cs1", TokenSecret(t)), cb),
      OAuthRequest("ck1", t, Now, n, "HMAC-SHA1", Sign("HMAC-SHA1", "cs1", TokenSecret(t)), cb),
      OAuthRequest("ckX", t, Now, n, "PLAINTEXT", Sign("PLAINTEXT", "cs1", TokenSecret(t)), cb),
      OAuthRequest("ck1", t, Now - Skew - 1, n, "PLAINTEXT", Sign("PLAINTEXT", "cs1", TokenSecret(t)), cb),
      OAuthRequest("ck1", t, Now, n, "RSA-SHA1", Sign("RSA-SHA1", "cs1", TokenSecret(t)), cb),
      OAuthRequest("ck1", t, Now, n, "PLAINTEXT", Sign("PLAINTEXT", "bad", TokenSecret(t)), cb) }

OAuthRequestsWith(callbacks) ==
    {NoOAuthRequest} \cup
    UNION { RequestsFor(t, n, cb) : t \in 0..MaxTokens, n \in Nonces, cb \in callbacks }

SignedRequests == OAuthRequestsWith({""})
BrowserRequests == OAuthRequestsWith(Callbacks)

\* what the browser sends to the authorization endpoint: a visitor who is not
\* logged in, or a logged-in user's GET, PUT, or POST with its decision
HttpInput(method, user, authorize_access) ==
    [method |-> method, user |-> user, authorize_access |-> authorize_access]

HttpInputs ==
    { HttpInput("GET", "anonymous", "0"), HttpInput("GET", "u1", "0"),
      HttpInput("PUT", "u1", "0"), HttpInput("POST", "u1", "0"),
      HttpInput("POST", "u1", "absent") } \cup
    { HttpInput("POST", u, "1") : u \in Users }

\* every request to the authorization endpoint
AllUserAuthInputs == BrowserRequests \X HttpInputs

\* the requests to the authorization endpoint the machine is driven with: the
\* callback is read by the POST branch alone, an absent authorize_access is
\* read as '0', and each way the request's checks
\* can touch the store (nothing recorded, nonce recorded, token created) is there
UserAuthInputs ==
    { x \in AllUserAuthInputs :
        /\ x[2].method # "POST" => x[1].callback = ""
        /\ x[2].authorize_access # "absent"
        /\ x[1].parsed => /\ x[1].signature_method = "PLAINTEXT"
                          /\ x[1].timestamp = Now
                          /\ x[1].signature \in { Sign("PLAINTEXT", "cs1", 0),
                                                  Sign("PLAINTEXT", "bad", TokenSecret(x[1].token)) } }

\* ------------------------------------------- HttpBasicAuthentication.challenge
\* the realms handlers are constructed with
Realms == {"API", "Staff"}

\* challenge() announcing the default realm whatever the handler's realm
BasicChallenge_default_realm(realm) ==
    Response(401, "text", "Authorization Required", 0, <<"Basic", "API">>)

\* HttpBasicAuthentication.challenge() of a handler constructed with realm
BasicChallenge(realm) ==
    Response(401, "text", "Authorization Required", 0, <<"Basic", realm>>)

\* the Authorization headers the requests carry: none, a scheme alone, or a
\* scheme, a space and a payload of up to MaxPayload characters ("YTo6" is the
\* base64 of "a::", "TTo6" of "M::", "YTo=" of "a:")
Schemes == { <<"B","a","s","i","c">>, <<"B","A","S","I","C">>, <<"O","A","u","t","h">> }
PayloadChars == {" ", "Y", "T", "o", "6", "=", "!"}
BasicHeaders ==
    {<<>>} \cup Schemes \cup
    { s \o <<" ">> \o r : s \in Schemes, r \in SeqsUpTo(PayloadChars, MaxPayload) }

BasicInit ==
    /\ auth_string \in BasicHeaders
    /\ basic_ret = "pending"
    /\ basic_user = "unset"
    /\ basic_realm \in Realms
    /\ basic_challenge = NoResponse

\* the framework calls is_authenticated on the request
BasicCheck ==
    /\ basic_ret = "pending"
    /\ LET r == BasicIsAuthenticated(auth_string, basic_user)
       IN  /\ basic_ret' = r.ret
           /\ basic_user' = r.user
    /\ UNCHANGED <<auth_string, basic_realm, basic_challenge>>
    /\ UNCHANGED <<protoVars, concVars, authVars>>

\* is_authenticated returned False: the framework answers with challenge()
BasicChallenged ==
    /\ basic_ret = "False"
    /\ basic_challenge = NoResponse
    /\ basic_challenge' = BasicChallenge(basic_realm)
    /\ UNCHANGED <<auth_string, basic_ret, basic_user, basic_realm>>
    /\ UNCHANGED <<protoVars, concVars, authVars>>

\* ---------------------------------------------------- OAuthAuthentication
\* the six parameters is_valid_request looks for
MustHave == {"oauth_consumer_key", "oauth_token", "oauth_signature",
             "oauth_signature_method", "oauth_timestamp", "oauth_nonce"}

\* p in l for the Authorization header, a string: p occurs in the text, and
\* the text of oauth_signature_method holds oauth_signature
InText(p, names) ==
    \/ p \in names
    \/ p = "oauth_signature" /\ "oauth_signature_method" \in names

\* OAuthAuthentication.is_valid_request(request): all of must_have in the
\* header's text, or all of them keys of request.REQUEST
is_valid_request(request) ==
    \/ request.hscheme # "none" /\ \A p \in MustHave : InText(p, request.hnames)
    \/ \A p \in MustHave : p \in request.qnames

\* the parameters OAuthRequest.from_request collects: those of an
\* Authorization header of scheme OAuth, and those of query string and body
ParsedNames(request) ==
    (IF request.hscheme = "OAuth" THEN request.hnames ELSE {}) \cup request.qnames

\* initialize_server_request(request): no server when from_request gives None
initialize_server_request(request) ==
    IF ParsedNames(request) = {} THEN [server |-> FALSE, oauth_request |-> NoOAuthRequest]
    ELSE [server |-> TRUE, oauth_request |-> request.oauth]

\* OAuthServer.verify_request: the parameters, the access token named, then the
\* request's checks with that token's secret; gives the consumer and the token
verify_request(request, tt, nn) ==
    IF ~(MustHave \subseteq ParsedNames(request))
    THEN [err |-> "MissingParameterError", nonces |-> nn, consumer |-> 0, token |-> 0]
    ELSE IF request.oauth.token \notin TokenKeys(tt, "access")
    THEN [err |-> "TokenNotFoundError", nonces |-> nn, consumer |-> 0, token |-> 0]
    ELSE LET chk == CheckRequest(request.oauth, request.oauth.token,
                                 TokenSecret(request.oauth.token), nn)
         IN  IF chk.err # ""
             THEN [err |-> chk.err, nonces |-> chk.nonces, consumer |-> 0, token |-> 0]
             ELSE [err |-> "", nonces |-> chk.nonces,
                   consumer |-> (CHOOSE c \in ConsumerTable :
                                    c.key = tt[request.oauth.token].consumer).id,
                   token |-> request.oauth.token]

\* OAuthAuthentication.validate_token(request)
validate_token(request, tt, nn) ==
    IF ~initialize_server_request(request).server
    THEN [err |-> "AttributeError", nonces |-> nn, consumer |-> 0, token |-> 0]
    ELSE verify_request(request, tt, nn)

\* OAuthAuthentication.is_authenticated(request), request.user and
\* request.throttle_extra being user and throttle on entry
AuthResult(ret, user, throttle, nn) ==
    [ret |-> ret, user |-> user, throttle |-> throttle, nonces |-> nn]

\* is_authenticated without the except clause: the OAuthError leaves it
OAuthIsAuthenticated_uncaught(request, user, throttle, tt, nn) ==
    IF is_valid_request(request)
    THEN LET v == validate_token(request, tt, nn)
         IN  IF v.err = "AttributeError" THEN AuthResult("AttributeError", user, throttle, v.nonces)
             ELSE IF v.err # "" THEN AuthResult("OAuthError", user, throttle, v.nonces)
             ELSE AuthResult("True", tt[v.token].user,
                             (CHOOSE c \in ConsumerTable : c.key = tt[v.token].consumer).id,
                             v.nonces)
    ELSE AuthResult("False", user, throttle, nn)

\* is_authenticated binding the token's own id as throttle_extra
OAuthIsAuthenticated_token_id(request, user, throttle, tt, nn) ==
    IF is_valid_request(request)
    THEN LET v == validate_token(request, tt, nn)
         IN  IF v.err = "AttributeError" THEN AuthResult("AttributeError", user, throttle, v.nonces)
             ELSE IF v.err # "" THEN AuthResult("False", user, throttle, v.nonces)
             ELSE AuthResult("True", tt[v.token].user, v.token, v.nonces)
    ELSE AuthResult("False", user, throttle, nn)

OAuthIsAuthenticated(request, user, throttle, tt, nn) ==
    IF is_valid_request(request)
    THEN LET v == validate_token(request, tt, nn)
         IN  IF v.err = "AttributeError" THEN AuthResult("AttributeError", user, throttle, v.nonces)
             ELSE IF v.err # "" THEN AuthResult("False", user, throttle, v.nonces)
             ELSE IF v.consumer # 0 /\ v.token # 0
                  THEN AuthResult("True", tt[v.token].user,
                                  (CHOOSE c \in ConsumerTable : c.key = tt[v.token].consumer).id,
                                  v.nonces)
                  ELSE AuthResult("False", user, throttle, v.nonces)
    ELSE AuthResult("False", user, throttle, nn)

\* OAuthAuthentication.challenge() of a handler constructed with realm: the
\* header is built for the realm 'API', the body is the rendered template
OAuthChallenge(realm) == Response(401, "template", "oauth/challenge.html", 0, <<"OAuth", "API">>)

\* the API requests: where the six parameter names occur (Authorization
\* header of some scheme, query string and body) and the values they carry
HalfA == {"oauth_consumer_key", "oauth_token", "oauth_signature"}
Presence == { {}, MustHave, MustHave \ {"oauth_signature"}, HalfA, MustHave \ HalfA }

ApiRequest(hscheme, hnames, qnames, oauth) ==
    [hscheme |-> hscheme, hnames |-> hnames, qnames |-> qnames, oauth |-> oauth]

ApiRequests ==
    { ApiRequest(hs, hn, qn, o) :
        hs \in {"OAuth", "Other"}, hn \in Presence, qn \in Presence,
        o \in SignedRequests \ {NoOAuthRequest} } \cup
    { ApiRequest("none", {}, qn, o) :
        qn \in Presence, o \in SignedRequests \ {NoOAuthRequest} }

NoApiRequest == ApiRequest("none", {}, {}, NoOAuthRequest)

\* ----------------------------------------------------------- the machine
NoLast == [ep |-> "none", status |-> 0, kind |-> "None", raised |-> {}, authorized |-> FALSE]

ProtoInit ==
    /\ tokens = <<>>
    /\ nonces = {}
    /\ session = -1
    /\ last = NoLast

BasicIdle ==
    /\ auth_string = <<>>
    /\ basic_ret = "pending"
    /\ basic_user = "unset"
    /\ basic_realm = "API"
    /\ basic_challenge = NoResponse

\* the store and session take the endpoint's outcome; the Token table is bounded
Handle(ep, o) ==
    /\ Len(o.tokens) <= MaxTokens
    /\ tokens' = o.tokens
    /\ nonces' = o.nonces
    /\ session' = o.session
    /\ last' = [ep |-> ep, status |-> o.resp.status, kind |-> o.resp.kind,
                 raised |-> o.raised, authorized |-> o.authorized]
    /\ UNCHANGED <<basicVars, concVars, authVars>>

RequestToken ==
    \E req \in SignedRequests :
        Handle("request_token", oauth_request_token(req, tokens, nonces, session))

UserAuth ==
    \E x \in UserAuthInputs :
        Handle("user_auth", oauth_user_auth(x[1], x[2], tokens, nonces, session))

AccessToken ==
    \E req \in SignedRequests :
        Handle("access_token", oauth_access_token(req, tokens, nonces, session))

NoPost == [user |-> "none", authorize_access |-> "0", callback |-> ""]

ConcIdle ==
    /\ pc = [p \in Procs |-> "idle"]
    /\ creq = [p \in Procs |-> 0]
    /\ cpost = [p \in Procs |-> NoPost]

AuthIdle ==
    /\ api = NoApiRequest
    /\ auth_ret = "pending"
    /\ auth_user = "unset"
    /\ auth_throttle = 0
    /\ oauth_realm = "API"
    /\ oauth_challenge = NoResponse

Init == BasicIdle /\ ProtoInit /\ ConcIdle /\ AuthIdle

Next == RequestToken \/ UserAuth \/ AccessToken

Spec == Init /\ [][Next]_vars

\* ------------------------------------------------ the Basic handler alone
BasicNext == BasicCheck \/ BasicChallenged

BasicSpecInit == BasicInit /\ ProtoInit /\ ConcIdle /\ AuthIdle

SpecBasic == BasicSpecInit /\ [][BasicNext]_vars

\* ------------------------------------- store states the protocol leaves
RequestRow(state, user) ==
    [kind |-> "request", state |-> state, user |-> user, consumer |-> "ck1", source |-> 0]

AccessRow(user, source) ==
    [kind |-> "access", state |-> "ACCESS", user |-> user, consumer |-> "ck1", source |-> source]

\* request tokens issued (for nonce n1, then n2) and not yet exchanged
PendingStores ==
    { [tokens |-> <<RequestRow("UNAUTHORIZED", "none")>>, nonces |-> {<<"ck1", 0, Now, "n1">>},
       session |-> -1] } \cup
    { [tokens |-> <<RequestRow("AUTHORIZED", u)>>, nonces |-> {<<"ck1", 0, Now, "n1">>},
       session |-> 0] : u \in Users } \cup
    { [tokens |-> <<RequestRow("AUTHORIZED", u), r>>,
       nonces |-> {<<"ck1", 0, Now, "n1">>, <<"ck1", 0, Now, "n2">>},
       session |-> 0] :
          u \in Users, r \in {RequestRow("UNAUTHORIZED", "none"), RequestRow("AUTHORIZED", "u2")} }

\* the same token exchanged for access token 2, which has signed some API calls
ExchangedStores ==
    { [tokens |-> <<RequestRow("CONSUMED", u), AccessRow(u, 1)>>,
       nonces |-> {<<"ck1", 0, Now, "n1">>, <<"ck1", 1, Now, "n1">>} \cup used,
       session |-> 0] :
          u \in Users, used \in SUBSET { <<"ck1", 2, Now, n>> : n \in Nonces } }

StoreIs(st) ==
    /\ tokens = st.tokens
    /\ nonces = st.nonces
    /\ session = st.session
    /\ last = NoLast

\* --------------------------- access-token requests handled concurrently
\* a handler takes a request and runs fetch_access_token up to the store's
\* consume-and-issue; a request that fails a check is answered at once
AccessBegin(p) ==
    /\ pc[p] = "idle"
    /\ \E req \in SignedRequests \ {NoOAuthRequest} :
         LET chk == validate_access_request(req, tokens, nonces)
         IN  /\ nonces' = chk.nonces
             /\ IF chk.err # ""
                THEN /\ last' = [ep |-> "access_token", status |-> send_oauth_error(chk.err).status,
                                 kind |-> send_oauth_error(chk.err).kind,
                                 raised |-> {"fetch_access_token"}, authorized |-> FALSE]
                     /\ UNCHANGED <<pc, creq>>
                ELSE /\ pc' = [pc EXCEPT ![p] = "validated"]
                     /\ creq' = [creq EXCEPT ![p] = req.token]
                     /\ UNCHANGED last
    /\ UNCHANGED <<tokens, session, cpost, basicVars, authVars>>

\* the store's consume-and-issue, and the handler's response
AccessFinish(p) ==
    /\ pc[p] = "validated"
    /\ LET made == create_access_token(creq[p], tokens)
           resp == IF made.err # "" THEN send_oauth_error(made.err) ELSE TokenResponse(made.token)
       IN  /\ Len(made.tokens) <= MaxTokens
           /\ tokens' = made.tokens
           /\ last' = [ep |-> "access_token", status |-> resp.status, kind |-> resp.kind,
                       raised |-> IF made.err # "" THEN {"fetch_access_token"} ELSE {},
                       authorized |-> FALSE]
    /\ pc' = [pc EXCEPT ![p] = "idle"]
    /\ creq' = [creq EXCEPT ![p] = 0]
    /\ UNCHANGED <<nonces, session, cpost, basicVars, authVars>>

ConcInit ==
    /\ \E st \in PendingStores : StoreIs(st)
    /\ BasicIdle /\ ConcIdle /\ AuthIdle

ConcNext == \E p \in Procs : AccessBegin(p) \/ AccessFinish(p)

SpecConc == ConcInit /\ [][ConcNext]_vars

\* ------------------- POSTs to the authorization endpoint handled concurrently
\* the user's browser sends two POSTs for the token the session's marker
\* names; each handler runs up to the test of the marker (line 154), and from
\* its reset (line 155) to the response, in two steps
PostBegin(p) ==
    /\ pc[p] = "idle"
    /\ \E k \in TokenKeys(tokens, "request"), u \in {"u1"}, a \in {"0", "1"}, cb \in Callbacks :
         /\ creq' = [creq EXCEPT ![p] = k]
         /\ cpost' = [cpost EXCEPT ![p] = [user |-> u, authorize_access |-> a, callback |-> cb]]
         /\ IF session = k
            THEN /\ pc' = [pc EXCEPT ![p] = "accepted"]
                 /\ UNCHANGED last
            ELSE /\ pc' = [pc EXCEPT ![p] = "refused"]
                 /\ last' = [ep |-> "user_auth", status |-> 200, kind |-> "text",
                             raised |-> IF cb = "" THEN {"get_callback"} ELSE {},
                             authorized |-> FALSE]
    /\ UNCHANGED <<tokens, nonces, session, basicVars, authVars>>

PostFinish(p) ==
    /\ pc[p] = "accepted"
    /\ LET o == user_auth_decision(creq[p], cpost[p].callback,
                                   HttpInput("POST", cpost[p].user, cpost[p].authorize_access),
                                   tokens, nonces,
                                   IF cpost[p].callback = "" THEN {"get_callback"} ELSE {})
       IN  /\ tokens' = o.tokens
           /\ session' = o.session
           /\ last' = [ep |-> "user_auth", status |-> o.resp.status, kind |-> o.resp.kind,
                       raised |-> o.raised, authorized |-> o.authorized]
    /\ pc' = [pc EXCEPT ![p] = "done"]
    /\ UNCHANGED <<nonces, creq, cpost, basicVars, authVars>>

\* a GET for token 1 has just set the session's marker
PostInit ==
    /\ \E st \in PendingStores : StoreIs([st EXCEPT !.session = 1])
    /\ BasicIdle /\ ConcIdle /\ AuthIdle

PostNext == \E p \in Procs : PostBegin(p) \/ PostFinish(p)

SpecPost == PostInit /\ [][PostNext]_vars

\* ------------------------------------------- API calls authenticated by OAuth
AuthInit ==
    /\ \E st \in ExchangedStores \cup {s \in PendingStores : Len(s.tokens) = 1} : StoreIs(st)
    /\ api \in ApiRequests
    /\ auth_ret = "pending"
    /\ auth_user = "unset"
    /\ auth_throttle = 0
    /\ oauth_realm \in Realms
    /\ oauth_challenge = NoResponse
    /\ BasicIdle /\ ConcIdle

\* the framework calls is_authenticated on the request
ApiCheck ==
    /\ auth_ret = "pending"
    /\ LET r == OAuthIsAuthenticated(api, auth_user, auth_throttle, tokens, nonces)
       IN  /\ auth_ret' = r.ret
           /\ auth_user' = r.user
           /\ auth_throttle' = r.throttle
           /\ nonces' = r.nonces
    /\ UNCHANGED <<api, oauth_realm, oauth_challenge, tokens, session, last,
                   basicVars, concVars>>

\* is_authenticated returned False: the framework answers with challenge()
OAuthChallenged ==
    /\ auth_ret = "False"
    /\ oauth_challenge = NoResponse
    /\ oauth_challenge' = OAuthChallenge(oauth_realm)
    /\ UNCHANGED <<api, auth_ret, auth_user, auth_throttle, oauth_realm,
                   protoVars, basicVars, concVars>>

AuthNext == ApiCheck \/ OAuthChallenged

SpecAuth == AuthInit /\ [][AuthNext]_vars

\* =================================================================== claims
RequestKeys == TokenKeys(tokens, "request")
AccessKeys == TokenKeys(tokens, "access")
AccessTokensOf(tt, k) == { a \in TokenKeys(tt, "access") : tt[a].source = k }
IsOAuthError(resp, message) == resp = send_oauth_error(message)

\* C1: HttpBasicAuthentication.is_authenticated never raises: whatever the
\* Authorization header (no space after the scheme, a payload that is not
\* base64, a decoded payload without colon) and whatever the credential check
\* says, the call ends by returning True or False.
C1_NeverRaises == basic_ret \in {"pending", "True", "False"}

\* C2: a request token is exchanged at most once. A request token has one
\* access token derived from it when it is CONSUMED and none otherwise; the
\* access-token endpoint answers 200 with an access token only for a request
\* naming an AUTHORIZED request token, which it consumes; and every request
\* naming a CONSUMED request token is answered 401 TokenAlreadyConsumedError
\* and issues nothing.
C2_ExchangedAtMostOnce ==
    /\ \A k \in RequestKeys :
         Cardinality(AccessTokensOf(tokens, k)) = IF tokens[k].state = "CONSUMED" THEN 1 ELSE 0
    /\ \A req \in SignedRequests :
         LET o == oauth_access_token(req, tokens, nonces, session)
         IN  /\ o.resp.status = 200 =>
                  /\ req.token \in RequestKeys
                  /\ tokens[req.token].state = "AUTHORIZED"
                  /\ o.tokens[req.token].state = "CONSUMED"
                  /\ o.resp = TokenResponse(Len(tokens) + 1)
                  /\ AccessTokensOf(o.tokens, req.token) = {Len(tokens) + 1}
             /\ (req.token \in RequestKeys /\ tokens[req.token].state = "CONSUMED") =>
                  /\ IsOAuthError(o.resp, "TokenAlreadyConsumedError")
                  /\ o.tokens = tokens

\* a second exchange of a consumed request token has just been refused
C2_Witness ==
    /\ last.ep = "access_token" /\ last.status = 401
    /\ \E k \in RequestKeys :
         /\ tokens[k].state = "CONSUMED"
         /\ Cardinality(AccessTokensOf(tokens, k)) = 1
         /\ <<"ck1", k, Now, "n1">> \in nonces
         /\ IsOAuthError(oauth_access_token(
                OAuthRequest("ck1", k, Now, "n2", "PLAINTEXT",
                             Sign("PLAINTEXT", "cs1", TokenSecret(k)), ""),
                tokens, nonces, session).resp, "TokenAlreadyConsumedError")

\* C3: under any interleaving of concurrent access-token requests naming the
\* same authorized request token, at most one access token is ever issued for
\* that request token.
C3_AtMostOneAccessToken ==
    \A k \in RequestKeys : Cardinality(AccessTokensOf(tokens, k)) <= 1

\* a handler validated its request while the token was AUTHORIZED, and another
\* handler has consumed the token before this one reaches the store
C3_Witness ==
    \E p \in Procs :
        /\ pc[p] = "validated"
        /\ tokens[creq[p]].state = "CONSUMED"
        /\ Cardinality(AccessTokensOf(tokens, creq[p])) = 1

\* C4: every access token is derived from exactly one request token, which was
\* AUTHORIZED when it was exchanged (and is CONSUMED since, its user being the
\* access token's); an access-token request naming a request token that is
\* still UNAUTHORIZED issues no token and is answered 401
\* TokenNotAuthorizedError.
C4_AccessFromAuthorized ==
    /\ \A a \in AccessKeys :
         /\ tokens[a].source \in RequestKeys
         /\ tokens[tokens[a].source].state = "CONSUMED"
         /\ tokens[a].user = tokens[tokens[a].source].user
         /\ tokens[a].user \in Users
    /\ \A a, b \in AccessKeys : tokens[a].source = tokens[b].source => a = b
    /\ \A req \in SignedRequests :
         LET o == oauth_access_token(req, tokens, nonces, session)
         IN  /\ Len(o.tokens) > Len(tokens) =>
                  /\ req.token \in RequestKeys
                  /\ tokens[req.token].state = "AUTHORIZED"
                  /\ o.tokens[Len(o.tokens)].source = req.token
             /\ (req.token \in RequestKeys /\ tokens[req.token].state = "UNAUTHORIZED") =>
                  /\ IsOAuthError(o.resp, "TokenNotAuthorizedError")
                  /\ o.tokens = tokens

\* an access token exists, and an exchange of a token that is still
\* UNAUTHORIZED has just been refused
C4_Witness ==
    /\ last.ep = "access_token" /\ last.status = 401
    /\ AccessKeys # {}
    /\ \E k \in RequestKeys : tokens[k].state = "UNAUTHORIZED"
    /\ \A k \in RequestKeys : tokens[k].state # "AUTHORIZED"

C6_EveryServerErrorIs401 ==
    last.raised # {} => (last.status = 401 /\ last.kind = "error")

\* C6, amended: at each entry point an OAuthError raised by
\* fetch_request_token, authorize_token or fetch_access_token is answered with
\* status 401, the error's message as body and the OAuth WWW-Authenticate
\* header; an OAuthError raised by get_callback in oauth_user_auth is caught
\* too, but only leaves the callback unset, and the request is handled on; no
\* OAuthError leaves an entry point.
C6_OperationErrorsAre401 ==
    /\ last.kind # "OAuthError"
    /\ (last.raised \cap {"fetch_request_token", "authorize_token", "fetch_access_token"} # {})
          => (last.status = 401 /\ last.kind = "error")
    /\ \A req \in SignedRequests \ {NoOAuthRequest} :
         /\ LET f == fetch_request_token(req, tokens, nonces)
            IN  f.err # "" =>
                   IsOAuthError(oauth_request_token(req, tokens, nonces, session).resp, f.err)
         /\ LET f == fetch_access_token(req, tokens, nonces)
            IN  f.err # "" =>
                   IsOAuthError(oauth_access_token(req, tokens, nonces, session).resp, f.err)
    /\ \A x \in AllUserAuthInputs :
         (x[1].parsed /\ x[2].user # "anonymous") =>
            LET o == oauth_user_auth(x[1], x[2], tokens, nonces, session)
                f == fetch_request_token(x[1], tokens, nonces)
            IN  /\ o.resp.kind # "OAuthError"
                /\ f.err # "" => IsOAuthError(o.resp, f.err)
                /\ "authorize_token" \in o.raised =>
                      IsOAuthError(o.resp, authorize_token(f.token, x[2].user, f.tokens).err)
                /\ o.raised = {"get_callback"} => o.resp.status # 401

\* authorize_token has just raised in oauth_user_auth and the user got a 401
C6_Witness ==
    /\ last.ep = "user_auth"
    /\ "authorize_token" \in last.raised
    /\ last.status = 401

\* C7 as stated, for the failures: every failure outcome of the protocol
\* endpoints (an error message, among them the refusal of a POST whose session
\* does not hold the token's key) is a 401 response.
C7_FailuresAre401 ==
    last.kind \in {"error", "text"} => last.status = 401

\* C8: a granting POST to the user-authorization endpoint for a request token
\* that is not UNAUTHORIZED leaves every token's state and bound user as they
\* were; when it gets as far as authorize_token, the call fails its
\* precondition and the user is answered 401.
C8_AuthorizeOnlyUnauthorized ==
    /\ \A x \in AllUserAuthInputs :
         ( /\ x[1].parsed
           /\ x[2].method = "POST" /\ x[2].authorize_access = "1"
           /\ x[1].token \in RequestKeys
           /\ tokens[x[1].token].state # "UNAUTHORIZED" ) =>
            LET o == oauth_user_auth(x[1], x[2], tokens, nonces, session)
            IN  /\ o.tokens = tokens
                /\ o.authorized => IsOAuthError(o.resp, "PreconditionFailedError")
    /\ \A k \in RequestKeys :
         (tokens[k].state = "UNAUTHORIZED") = (tokens[k].user = "none")

\* a user has just granted access to a token that was no longer UNAUTHORIZED:
\* authorize_token was called and failed
C8_Witness ==
    /\ last.ep = "user_auth" /\ last.authorized
    /\ last.raised = {"authorize_token", "get_callback"}
    /\ session = 0
    /\ \E k \in RequestKeys : tokens[k].state = "CONSUMED" /\ tokens[k].user = "u2"

\* C9: when verifying the request raises an OAuthError,
\* OAuthAuthentication.is_authenticated returns False and leaves request.user
\* and request.throttle_extra as they were.
C9_OAuthErrorIsFalse ==
    [][ ( /\ is_valid_request(api)
          /\ validate_token(api, tokens, nonces).err \notin {"", "AttributeError"} )
        => ( /\ auth_ret' = "False"
             /\ auth_user' = auth_user
             /\ auth_throttle' = auth_throttle ) ]_vars

\* a request with all six parameters and a wrong signature for access token 2
\* was checked: InvalidSignatureError was raised, and the answer is False
C9_Witness ==
    /\ auth_ret = "False" /\ auth_user = "unset" /\ auth_throttle = 0
    /\ is_valid_request(api)
    /\ MustHave \subseteq ParsedNames(api)
    /\ api.oauth.token \in AccessKeys
    /\ api.oauth.signature = Sign("PLAINTEXT", "bad", TokenSecret(api.oauth.token))
    /\ NonceTuple(api.oauth, api.oauth.token) \in nonces

\* C10: OAuthAuthentication.is_authenticated returns True exactly when the
\* pre-check passes and verify_request returns a consumer and a token; then,
\* and only then, request.user becomes the token's user and
\* request.throttle_extra the id of the token's consumer.
C10_TrueIffVerified ==
    [][ LET v == validate_token(api, tokens, nonces)
            verified == is_valid_request(api) /\ v.err = ""
        IN  /\ (auth_ret' = "True") = verified
            /\ verified =>
                 /\ auth_user' = tokens[v.token].user
                 /\ auth_throttle' =
                      (CHOOSE c \in ConsumerTable : c.key = tokens[v.token].consumer).id
            /\ ~verified => (auth_user' = auth_user /\ auth_throttle' = auth_throttle) ]_vars

\* an API call signed for access token 2 was authenticated as the token's user
C10_Witness ==
    /\ auth_ret = "True"
    /\ api.oauth.token \in AccessKeys
    /\ auth_user = tokens[api.oauth.token].user /\ auth_user \in Users
    /\ auth_throttle = 1

\* the six parameters are all parameters of the Authorization header, or all
\* parameters of query string and body
SingleSource(request) ==
    \/ request.hscheme # "none" /\ MustHave \subseteq request.hnames
    \/ MustHave \subseteq request.qnames

\* C11: the pre-check of OAuthAuthentication passes only for a request whose
\* six required parameters are all present in one single source, the
\* Authorization header or the query string and body together; a request
\* that is_authenticated has let through to verify_request, and all the more
\* one it has authenticated, has them in one source.
C11_PreCheckSingleSource ==
    (auth_ret # "pending" /\ is_valid_request(api)) => SingleSource(api)

\* the header is a Basic header in any letter case: scheme, a space, a payload
IsBasicHeader(header) ==
    /\ Len(header) > 5
    /\ SubSeq(header, 1, 5) \in { <<"B","a","s","i","c">>, <<"B","A","S","I","C">> }
    /\ header[6] = " "

\* the bytes the payload of a Basic header decodes to
BasicPayload(header) == DecodeBase64(Strip(SubSeq(header, 7, Len(header))))

\* a well-formed Basic header: the payload is base64 of bytes with a colon
WellFormedBasic(header) ==
    /\ IsBasicHeader(header)
    /\ BasicPayload(header).ok
    /\ \E i \in 1..Len(BasicPayload(header).bytes) : BasicPayload(header).bytes[i] = Colon

\* what the credential check says of the bytes before the first colon and
\* all the bytes after it
CredentialCheck(header) ==
    LET bytes == BasicPayload(header).bytes
        i == CHOOSE i \in 1..Len(bytes) :
                 bytes[i] = Colon /\ \A j \in 1..(i - 1) : bytes[j] # Colon
    IN  django_auth(SubSeq(bytes, 1, i - 1), SubSeq(bytes, i + 1, Len(bytes)))

UserNames == { u.name : u \in UserTable }

\* C12: for a well-formed Basic header, whatever the letter case of the
\* scheme, the decoded payload is split on its first colon only, and
\* is_authenticated returns True exactly when the credential check gives an
\* identity for that username and password, which is then request.user; when
\* the check fails it returns False and request.user is no user's identity.
C12_FirstColonCaseInsensitive ==
    (basic_ret # "pending" /\ WellFormedBasic(auth_string)) =>
        IF CredentialCheck(auth_string) \in UserNames
        THEN basic_ret = "True" /\ basic_user = CredentialCheck(auth_string)
        ELSE basic_ret = "False" /\ basic_user \notin UserNames

\* alice was authenticated by `BASIC YTo6`: an upper-case scheme, and the
\* password ":" after the first colon of "a::"
C12_Witness ==
    /\ auth_string = <<"B","A","S","I","C"," ","Y","T","o","6">>
    /\ basic_ret = "True"
    /\ basic_user = "alice"

\* C13: Basic failures are indistinguishable. Whenever the credentials of a
\* well-formed Basic header are rejected, for an unknown username as for a
\* wrong password, is_authenticated returns False, request.user is the
\* anonymous user, and challenge() is the 401 response "Authorization
\* Required" with the header Basic realm="<the handler's realm>": nothing in
\* the outcome depends on the request.
C13_FailuresIndistinguishable ==
    ( /\ basic_ret # "pending"
      /\ WellFormedBasic(auth_string)
      /\ CredentialCheck(auth_string) \notin UserNames ) =>
        /\ basic_ret = "False"
        /\ basic_user = "AnonymousUser"
        /\ basic_challenge \in
             { NoResponse,
               [status |-> 401, kind |-> "text", text |-> "Authorization Required",
                token |-> 0, www |-> <<"Basic", basic_realm>>] }

\* `Basic TTo6` (the unknown user "M") was refused by a handler of realm
\* Staff and the challenge was sent
C13_Witness ==
    /\ auth_string = <<"B","a","s","i","c"," ","T","T","o","6">>
    /\ basic_realm = "Staff"
    /\ basic_ret = "False"
    /\ basic_challenge.status = 401

\* C14: handling a request to the user-authorization endpoint never adds a
\* token to the store, and changes a token only through authorize_token: the
\* endpoint looks the named request token up and creates none.
C14_UserAuthCreatesNoToken ==
    [][ last'.ep = "user_auth" =>
          /\ Len(tokens') = Len(tokens)
          /\ tokens' # tokens => last'.authorized ]_vars

\* the answer to a POST the session does not allow
ActionNotAllowed == [status |-> 200, kind |-> "text", text |-> "Action not allowed.",
                     token |-> 0, www |-> <<>>]

\* C15: in a session, the marker session['oauth'] is set by a GET to the
\* authorization endpoint, to the key of the GET's token, and by nothing else;
\* a POST is accepted only while the marker holds its token's key, and
\* authorize_token is called by accepted POSTs only; an accepted POST clears
\* the marker, also when authorize_token then fails, so that the same POST
\* sent again without a new GET is answered 'Action not allowed.' and leaves
\* the store as it is. Hence each GET arms at most one decision.
C15_GetArmsOneDecision ==
    /\ session > 0 => session \in RequestKeys
    /\ \A x \in AllUserAuthInputs :
         LET o == oauth_user_auth(x[1], x[2], tokens, nonces, session)
             f == fetch_request_token(x[1], tokens, nonces)
             handled == x[2].user # "anonymous" /\ x[1].parsed /\ f.err = ""
             get == handled /\ x[2].method = "GET"
             accepted == handled /\ x[2].method = "POST" /\ session = f.token
         IN  /\ o.authorized => accepted
             /\ get => o.session = f.token
             /\ accepted =>
                  /\ o.session = 0
                  /\ LET again == oauth_user_auth(x[1], x[2], o.tokens, o.nonces, o.session)
                     IN  /\ again.resp = ActionNotAllowed
                         /\ ~again.authorized
                         /\ again.tokens = o.tokens
                         /\ again.session = 0
             /\ ~(get \/ accepted) => o.session = session

\* a GET armed the decision, a POST granted access, and a further POST was
\* answered 'Action not allowed.'
C15_Witness ==
    /\ last.ep = "user_auth" /\ last.kind = "text" /\ ~last.authorized
    /\ session = 0
    /\ Len(tokens) = 1 /\ tokens[1].state = "AUTHORIZED"

\* C16: of two POSTs to the authorization endpoint sent concurrently in one
\* session for the token a single GET has armed, at most one passes the test
\* of the session's marker and gets as far as authorize_token.
C16_OnePostAccepted ==
    Cardinality({ p \in Procs : pc[p] = "done" /\ cpost[p].authorize_access = "1" }) <= 1

\* C17: a POST to the authorization endpoint whose authorize_access is absent
\* or 0 never calls authorize_token and leaves every token of the store as it
\* was; when the POST is accepted the store is unchanged altogether and the
\* user is redirected to the callback with the error argument, or, when the
\* request has no callback, answered by the configured callback view.
C17_DenyLeavesToken ==
    \A x \in AllUserAuthInputs :
        (x[2].method = "POST" /\ x[2].authorize_access \in {"absent", "0"}) =>
            LET o == oauth_user_auth(x[1], x[2], tokens, nonces, session)
                accepted == x[1].parsed /\ x[1].token \in RequestKeys /\ session = x[1].token
            IN  /\ ~o.authorized
                /\ \A k \in 1..Len(tokens) : o.tokens[k] = tokens[k]
                /\ accepted =>
                     /\ o.tokens = tokens
                     /\ o.resp = IF x[1].callback = ""
                                 THEN callback_view(x[1].token)
                                 ELSE Redirect(x[1].callback,
                                               "?error=Access not granted by user.", x[1].token)

\* the user has just refused access to a token: redirected to the callback,
\* the token still UNAUTHORIZED and bound to no user
C17_Witness ==
    /\ last.ep = "user_auth" /\ last.kind = "redirect" /\ ~last.authorized
    /\ session = 0
    /\ Len(tokens) = 1 /\ tokens[1].state = "UNAUTHORIZED" /\ tokens[1].user = "none"

\* C18: the authorization endpoint answers every request it handles with an
\* HTTP response, whatever the request's method: the handler never ends
\* without returning one.
C18_AlwaysAResponse ==
    last.ep = "user_auth" => (last.kind # "None" /\ last.status # 0)

\* C19: OAuthAuthentication.is_authenticated always ends by returning True or
\* False: whenever the pre-check passes there is a server to verify the
\* request with, also for a request whose Authorization header is not an
\* OAuth header and only holds the six parameter names as text.
C19_AlwaysABoolean == auth_ret \in {"pending", "True", "False"}

\* C20: the realm in the WWW-Authenticate header of
\* OAuthAuthentication.challenge() is the realm the handler was constructed
\* with, whatever that realm is.
C20_ChallengeRealm ==
    oauth_challenge # NoResponse =>
        /\ oauth_challenge.status = 401
        /\ oauth_challenge.www = <<"OAuth", oauth_realm>>

====
